---------------------------- MODULE Spec2Model ----------------------------
(***************************************************************************)
(* Model of class OrderBook (src/src/OrderBook.ts): an in-memory view of   *)
(* one symbol's order book, fed by snapshots and deltas, with queries for  *)
(* the best bid and ask.                                                   *)
(*                                                                         *)
(* A level is the tuple the code indexes through EnumLevelProperty:        *)
(*   <<symbol, price, side, qty, extraState>>.                             *)
(* JavaScript arrays are 0-based and TLA+ sequences 1-based: indices in    *)
(* the operators below are the code's 0-based indices, and element i of a  *)
(* JavaScript array is b[i + 1].                                           *)
(***************************************************************************)
EXTENDS Integers, Sequences, FiniteSets

(***************************************************************************)
(* Bounds of the model.                                                    *)
(***************************************************************************)
MaxPrice == 3
MaxQty == 1
MaxTime == 1
MaxDepth == 3
MaxBatch == 2
MaxOffset == 2
\* Bounds of the specification of the queries (SpecQuery).
MaxQueryPrice == 2
MaxQueryQty == 2
MaxQueryBatch == 1
MaxOrderSize == 4

VARIABLES
  book,                  \* this.book
  lastUpdateTimestamp,   \* this.lastUpdateTimestamp
  maxDepth,              \* this.maxDepth
  shouldCheckTimestamps, \* this.shouldCheckTimestamps
  pc,                    \* "idle": no call in progress; "returned": the call
                         \* recorded in `call` has just returned or thrown
  call,                  \* the public method called last and its arguments
  prevBook,              \* this.book when that call was entered
  prevTimestamp,         \* this.lastUpdateTimestamp when that call was entered
  error,                 \* the Error that call threw, or NoError
  result                 \* what a query returned: <<>> is null, <<x>> is x

vars == <<book, lastUpdateTimestamp, maxDepth, shouldCheckTimestamps, pc,
          call, prevBook, prevTimestamp, error, result>>

(***************************************************************************)
(* Levels.                                                                 *)
(***************************************************************************)
EnumLevelProperty == [symbol |-> 0, price |-> 1, side |-> 2, qty |-> 3, extraState |-> 4]

Price(level) == level[EnumLevelProperty.price + 1]
Side(level) == level[EnumLevelProperty.side + 1]
Qty(level) == level[EnumLevelProperty.qty + 1]

Symbol == "SYM"
Prices == 1..MaxPrice
Sides == {"Buy", "Sell"}
Qtys == 1..MaxQty
ExtraStates == {"x"}
Timestamps == 0..MaxTime
Offsets == (0 - MaxOffset)..MaxOffset

\* The levels and order sizes of the specification of the queries, where the
\* quantities matter: a level may rest with quantity 0.
QueryLevels ==
  {<<Symbol, p, s, q, e>> : p \in 1..MaxQueryPrice, s \in Sides, q \in 0..MaxQueryQty,
                            e \in ExtraStates}
OrderSizes == (0 - 1)..MaxOrderSize

Levels == {<<Symbol, p, s, q, e>> : p \in Prices, s \in Sides, q \in Qtys, e \in ExtraStates}

\* The sequences over S of length at most n.
SeqUpTo(S, n) == UNION {[1..k -> S] : k \in 0..n}

Null == <<>>
NoError == "none"
StaleError == "Received data older than last tick"
NotPositiveError == "Order size is not positive!"
NoLevelsError == "No relevant levels found in orderbook!"
NotFilledError == "Could not fill the entire order"

(***************************************************************************)
(* Array.prototype helpers, as the code uses them.                         *)
(***************************************************************************)
Min(a, b) == IF a < b THEN a ELSE b
Max(a, b) == IF a > b THEN a ELSE b
Abs(n) == IF n < 0 THEN 0 - n ELSE n

\* b.splice(start, deleteCount): a negative start counts from the end, and
\* both are clamped to the array.
Splice(b, start, deleteCount) ==
  LET len == Len(b)
      from == IF start < 0 THEN Max(len + start, 0) ELSE Min(start, len)
      cnt == Min(Max(deleteCount, 0), len - from)
  IN SubSeq(b, 1, from) \o SubSeq(b, from + cnt + 1, len)

\* b.splice(i, 1, level)
SpliceReplace(b, i, level) ==
  LET len == Len(b)
      from == IF i < 0 THEN Max(len + i, 0) ELSE Min(i, len)
      cnt == Min(1, len - from)
  IN SubSeq(b, 1, from) \o <<level>> \o SubSeq(b, from + cnt + 1, len)

\* b.filter((e) => e[side] === side)
RECURSIVE FilterSide(_, _)
FilterSide(b, side) ==
  IF b = <<>> THEN <<>>
  ELSE IF Side(Head(b)) = side THEN <<Head(b)>> \o FilterSide(Tail(b), side)
  ELSE FilterSide(Tail(b), side)

\* Where a level goes in a sequence already sorted by price, highest first:
\* after every level whose price is not lower (Array.prototype.sort is stable).
RECURSIVE InsertByPrice(_, _)
InsertByPrice(sorted, level) ==
  IF sorted = <<>> THEN <<level>>
  ELSE IF Price(Head(sorted)) >= Price(level)
       THEN <<Head(sorted)>> \o InsertByPrice(Tail(sorted), level)
       ELSE <<level>> \o sorted

RECURSIVE SortFrom(_, _)
SortFrom(sorted, rest) ==
  IF rest = <<>> THEN sorted
  ELSE SortFrom(InsertByPrice(sorted, Head(rest)), Tail(rest))

(***************************************************************************)
(* Private methods of OrderBook, as functions of the book.                 *)
(***************************************************************************)
\* A sort() that leaves the array as it is.
SortNothing(b) == b

\* sort(): lowest price last, highest price first.
Sort(b) == SortFrom(<<>>, b)

\* findIndexForSlice(level): the first index holding the level's price, or -1.
FindIndexForSlice(b, level) ==
  LET hits == {i \in 0..(Len(b) - 1) : Price(b[i + 1]) = Price(level)}
  IN IF hits = {} THEN 0 - 1 ELSE CHOOSE i \in hits : \A j \in hits : i <= j

ReplaceLevelAtIndex(b, i, level) == SpliceReplace(b, i, level)

InsertLevel(b, level) == Append(b, level)

\* +(maxDepth / 2).toFixed(0): the nearest integer, and of the two nearest
\* integers of a half the larger one.
MaxPerSide(depth) == (depth + 1) \div 2

\* A trimSideCount that trims from the beginning whatever shouldTrimTop says.
TrimSideCountTopOnly(b, totalToTrim, shouldTrimTop) ==
  IF totalToTrim <= 0 THEN b ELSE Splice(b, 0, totalToTrim)

TrimSideCount(b, totalToTrim, shouldTrimTop) ==
  IF totalToTrim <= 0 THEN b
  ELSE IF shouldTrimTop THEN Splice(b, 0, totalToTrim)
  ELSE Splice(b, Len(b) - totalToTrim - 1, totalToTrim)

TrimToMaxDepth(b, depth) ==
  IF Len(b) <= depth THEN b
  ELSE LET sells == Len(FilterSide(b, "Sell"))
           buys == Len(b) - sells
           maxPerSide == MaxPerSide(depth)
           buysToTrim == buys - maxPerSide
           sellsToTrim == sells - maxPerSide
       IN TrimSideCount(TrimSideCount(Sort(b), buysToTrim, FALSE), sellsToTrim, TRUE)

\* A checkTimestamp that does not look at shouldCheckTimestamps.
CheckTimestampThrowsUnasked(check, last, timestamp) == last > timestamp

\* A checkTimestamp that also rejects a timestamp equal to the last one.
CheckTimestampThrowsOnEqual(check, last, timestamp) == check /\ last >= timestamp

\* checkTimestamp(timestamp) throws.
CheckTimestampThrows(check, last, timestamp) == check /\ last > timestamp

\* One step of each forEach loop of handleDelta.
DeleteStep(b, level) ==
  LET existingIndex == FindIndexForSlice(b, level)
  IN IF existingIndex # 0 - 1 THEN Splice(b, existingIndex, 1) ELSE b

UpsertStep(b, level) ==
  LET existingIndex == FindIndexForSlice(b, level)
  IN IF existingIndex # 0 - 1 THEN ReplaceLevelAtIndex(b, existingIndex, level)
     ELSE InsertLevel(b, level)

\* An insert step that appends without replacing the level it found.
InsertStepAppendOnly(b, level) == InsertLevel(b, level)

InsertStep(b, level) ==
  LET existingIndex == FindIndexForSlice(b, level)
      replaced == IF existingIndex # 0 - 1
                  THEN ReplaceLevelAtIndex(b, existingIndex, level)
                  ELSE b
  IN InsertLevel(replaced, level)

RECURSIVE ForEachDelete(_, _)
ForEachDelete(b, batch) ==
  IF batch = <<>> THEN b ELSE ForEachDelete(DeleteStep(b, Head(batch)), Tail(batch))

RECURSIVE ForEachUpsert(_, _)
ForEachUpsert(b, batch) ==
  IF batch = <<>> THEN b ELSE ForEachUpsert(UpsertStep(b, Head(batch)), Tail(batch))

RECURSIVE ForEachInsert(_, _)
ForEachInsert(b, batch) ==
  IF batch = <<>> THEN b ELSE ForEachInsert(InsertStep(b, Head(batch)), Tail(batch))

\* A snapshot that is merged into the stored array.
AssignBookMerged(b, data) == b \o data

\* this.book = data: the input replaces the stored array.
AssignBook(b, data) == data

\* The book handleSnapshot leaves once the timestamp is accepted.
SnapshotBook(b, data, depth) == Sort(TrimToMaxDepth(AssignBook(b, data), depth))

\* The three forEach loops of handleDelta, in the code's order.
\* (DeltaBook below is the book handleDelta leaves once the timestamp is accepted.)
ApplyBatches(b, deleteDelta, upsertDelta, insertDelta) ==
  ForEachInsert(ForEachUpsert(ForEachDelete(b, deleteDelta), upsertDelta), insertDelta)

DeltaBook(b, deleteDelta, upsertDelta, insertDelta, depth) ==
  Sort(TrimToMaxDepth(ApplyBatches(b, deleteDelta, upsertDelta, insertDelta), depth))

\* getBestAsk(offset) and getBestBid(offset): <<>> is null.
BestAsk(b, offset) ==
  LET sellSide == FilterSide(b, "Sell")
      index == Len(sellSide) - 1 - offset
  IN IF Abs(index) < Len(sellSide) THEN <<Price(sellSide[Abs(index) + 1])>> ELSE Null

\* A getBestBid that counts the offset from the end of the Buy side, the way
\* getBestAsk counts it on the Sell side.
BestBidFromBottom(b, offset) ==
  LET buySide == FilterSide(b, "Buy")
      index == Len(buySide) - 1 - Abs(offset)
  IN IF index >= 0 THEN <<Price(buySide[index + 1])>> ELSE Null

BestBid(b, offset) ==
  LET buySide == FilterSide(b, "Buy")
  IN IF Abs(offset) < Len(buySide) THEN <<Price(buySide[Abs(offset) + 1])>> ELSE Null

\* getSpreadPercent(n) and getSpreadBasisPoints(n): (1 - bid / ask) * scale, as
\* the fraction <<numerator, denominator>>, or null.  A price of 0 is falsy.
Spread(b, n, scale) ==
  LET ask == BestAsk(b, n)
      bid == BestBid(b, n)
  IN IF bid = Null \/ ask = Null THEN Null
     ELSE IF bid[1] = 0 \/ ask[1] = 0 THEN Null
     ELSE <<<<(ask[1] - bid[1]) * scale, ask[1]>>>>

\* [...relevantLevels].sort((a, b) => a[price] - b[price]): lowest price first.
RECURSIVE InsertByPriceAscending(_, _)
InsertByPriceAscending(sorted, level) ==
  IF sorted = <<>> THEN <<level>>
  ELSE IF Price(Head(sorted)) <= Price(level)
       THEN <<Head(sorted)>> \o InsertByPriceAscending(Tail(sorted), level)
       ELSE <<level>> \o sorted

RECURSIVE SortAscendingFrom(_, _)
SortAscendingFrom(sorted, rest) ==
  IF rest = <<>> THEN sorted
  ELSE SortAscendingFrom(InsertByPriceAscending(sorted, Head(rest)), Tail(rest))

\* A walk in the book's own order, highest price first whatever the side.
SortedLevelsBookOrder(b, side) == FilterSide(b, IF side = "Buy" THEN "Sell" ELSE "Buy")

\* The levels getEstimatedSlippage walks, in the order it walks them: the
\* other side's levels, lowest ask first for a Buy, highest bid first for a Sell.
SortedLevels(b, side) ==
  LET relevantLevels == FilterSide(b, IF side = "Buy" THEN "Sell" ELSE "Buy")
  IN IF side = "Buy" THEN SortAscendingFrom(<<>>, relevantLevels) ELSE Sort(relevantLevels)

\* A loop that pays for the whole of each level it touches.
RECURSIVE FillLevelsWholeLevel(_, _, _)
FillLevelsWholeLevel(levels, remainingSize, totalCost) ==
  IF levels = <<>> THEN [remainingSize |-> remainingSize, totalCost |-> totalCost]
  ELSE LET fillQty == Min(remainingSize, Qty(Head(levels)))
           cost == totalCost + Qty(Head(levels)) * Price(Head(levels))
           left == remainingSize - fillQty
       IN IF left <= 0 THEN [remainingSize |-> left, totalCost |-> cost]
          ELSE FillLevelsWholeLevel(Tail(levels), left, cost)

\* The for loop of getEstimatedSlippage: [remainingSize, totalCost] after it.
RECURSIVE FillLevels(_, _, _)
FillLevels(levels, remainingSize, totalCost) ==
  IF levels = <<>> THEN [remainingSize |-> remainingSize, totalCost |-> totalCost]
  ELSE LET fillQty == Min(remainingSize, Qty(Head(levels)))
           cost == totalCost + fillQty * Price(Head(levels))
           left == remainingSize - fillQty
       IN IF left <= 0 THEN [remainingSize |-> left, totalCost |-> cost]
          ELSE FillLevels(Tail(levels), left, cost)

\* A getEstimatedSlippage that also refuses an order the book fills exactly.
SlippageErrorWhenExact(b, baseOrderSize, side) ==
  IF baseOrderSize <= 0 THEN NotPositiveError
  ELSE IF SortedLevels(b, side) = <<>> THEN NoLevelsError
  ELSE IF FillLevels(SortedLevels(b, side), baseOrderSize, 0).remainingSize >= 0
       THEN NotFilledError
  ELSE NoError

\* The error getEstimatedSlippage(baseOrderSize, side) throws, or NoError.
SlippageError(b, baseOrderSize, side) ==
  IF baseOrderSize <= 0 THEN NotPositiveError
  ELSE IF SortedLevels(b, side) = <<>> THEN NoLevelsError
  ELSE IF FillLevels(SortedLevels(b, side), baseOrderSize, 0).remainingSize > 0
       THEN NotFilledError
  ELSE NoError

\* What getEstimatedSlippage returns when it does not throw: null, or the
\* record of executionPrice, slippagePercent and slippageBasisPoints, each the
\* fraction <<numerator, denominator>> of the code's quotient.
SlippageResult(b, baseOrderSize, side) ==
  LET totalCost == FillLevels(SortedLevels(b, side), baseOrderSize, 0).totalCost
      best == IF side = "Buy" THEN BestAsk(b, 0) ELSE BestBid(b, 0)
  IN IF best = Null THEN Null
     ELSE IF best[1] = 0 THEN Null
     ELSE LET bestPrice == best[1]
              percent == IF side = "Buy"
                         THEN <<(totalCost - bestPrice * baseOrderSize) * 100,
                                bestPrice * baseOrderSize>>
                         ELSE <<(bestPrice * baseOrderSize - totalCost) * 100, totalCost>>
          IN <<[executionPrice |-> <<totalCost, baseOrderSize>>,
                slippagePercent |-> percent,
                slippageBasisPoints |-> <<percent[1] * 100, percent[2]>>]>>

\* A getEstimatedSlippage that sorts this.book itself.
BookSortedBySlippage(b, side) == IF side = "Buy" THEN SortAscendingFrom(<<>>, b) ELSE Sort(b)

\* this.book after getEstimatedSlippage: filter and the spread copy give new
\* arrays, and the sort is of the copy.
BookAfterSlippage(b, side) == b

(***************************************************************************)
(* The calls.                                                              *)
(***************************************************************************)
NoCall == [op |-> "none", data |-> <<>>, deleteDelta |-> <<>>, upsertDelta |-> <<>>,
           insertDelta |-> <<>>, timestamp |-> 0, offset |-> 0,
           baseOrderSize |-> 0, side |-> "Buy"]

\* new OrderBook(symbol, {checkTimestamps, maxDepth})
Init ==
  /\ book = <<>>
  /\ lastUpdateTimestamp \in Timestamps
  /\ maxDepth \in 1..MaxDepth
  /\ shouldCheckTimestamps \in BOOLEAN
  /\ pc = "idle"
  /\ call = NoCall
  /\ prevBook = <<>>
  /\ prevTimestamp = lastUpdateTimestamp
  /\ error = NoError
  /\ result = Null

\* What every call does on entry.
Enter(c) ==
  /\ pc = "idle"
  /\ pc' = "returned"
  /\ call' = c
  /\ prevBook' = book
  /\ prevTimestamp' = lastUpdateTimestamp
  /\ UNCHANGED <<maxDepth, shouldCheckTimestamps>>

HandleSnapshot(data, timestamp) ==
  /\ Enter([NoCall EXCEPT !.op = "handleSnapshot", !.data = data, !.timestamp = timestamp])
  /\ result' = Null
  /\ IF CheckTimestampThrows(shouldCheckTimestamps, lastUpdateTimestamp, timestamp)
     THEN /\ error' = StaleError
          /\ UNCHANGED <<book, lastUpdateTimestamp>>
     ELSE /\ error' = NoError
          /\ book' = SnapshotBook(book, data, maxDepth)
          /\ lastUpdateTimestamp' = timestamp

HandleDelta(deleteDelta, upsertDelta, insertDelta, timestamp) ==
  /\ Enter([NoCall EXCEPT !.op = "handleDelta", !.deleteDelta = deleteDelta,
                          !.upsertDelta = upsertDelta, !.insertDelta = insertDelta,
                          !.timestamp = timestamp])
  /\ result' = Null
  /\ IF CheckTimestampThrows(shouldCheckTimestamps, lastUpdateTimestamp, timestamp)
     THEN /\ error' = StaleError
          /\ UNCHANGED <<book, lastUpdateTimestamp>>
     ELSE /\ error' = NoError
          /\ book' = DeltaBook(book, deleteDelta, upsertDelta, insertDelta, maxDepth)
          /\ lastUpdateTimestamp' = timestamp

Reset ==
  /\ Enter([NoCall EXCEPT !.op = "reset"])
  /\ result' = Null
  /\ error' = NoError
  /\ book' = <<>>
  /\ UNCHANGED lastUpdateTimestamp

GetBestAsk(offset) ==
  /\ Enter([NoCall EXCEPT !.op = "getBestAsk", !.offset = offset])
  /\ result' = BestAsk(book, offset)
  /\ error' = NoError
  /\ UNCHANGED <<book, lastUpdateTimestamp>>

GetBestBid(offset) ==
  /\ Enter([NoCall EXCEPT !.op = "getBestBid", !.offset = offset])
  /\ result' = BestBid(book, offset)
  /\ error' = NoError
  /\ UNCHANGED <<book, lastUpdateTimestamp>>

GetSpreadPercent(n) ==
  /\ Enter([NoCall EXCEPT !.op = "getSpreadPercent", !.offset = n])
  /\ result' = Spread(book, n, 100)
  /\ error' = NoError
  /\ UNCHANGED <<book, lastUpdateTimestamp>>

GetSpreadBasisPoints(n) ==
  /\ Enter([NoCall EXCEPT !.op = "getSpreadBasisPoints", !.offset = n])
  /\ result' = Spread(book, n, 10000)
  /\ error' = NoError
  /\ UNCHANGED <<book, lastUpdateTimestamp>>

GetEstimatedSlippage(baseOrderSize, side) ==
  /\ Enter([NoCall EXCEPT !.op = "getEstimatedSlippage", !.baseOrderSize = baseOrderSize,
                          !.side = side])
  /\ error' = SlippageError(book, baseOrderSize, side)
  /\ result' = IF SlippageError(book, baseOrderSize, side) = NoError
               THEN SlippageResult(book, baseOrderSize, side)
               ELSE Null
  /\ book' = IF baseOrderSize <= 0 THEN book ELSE BookAfterSlippage(book, side)
  /\ UNCHANGED lastUpdateTimestamp

\* The call is over: its arguments, return value and error are gone, and the
\* object is ready for the next call.
Return ==
  /\ pc = "returned"
  /\ pc' = "idle"
  /\ call' = NoCall
  /\ prevBook' = <<>>
  /\ prevTimestamp' = lastUpdateTimestamp
  /\ error' = NoError
  /\ result' = Null
  /\ UNCHANGED <<book, lastUpdateTimestamp, maxDepth, shouldCheckTimestamps>>

\* The batches of one handleDelta call: at most MaxBatch levels in all.
DeltaBatches ==
  {d \in SeqUpTo(Levels, MaxBatch) \X SeqUpTo(Levels, MaxBatch) \X SeqUpTo(Levels, MaxBatch) :
     Len(d[1]) + Len(d[2]) + Len(d[3]) <= MaxBatch}

SnapshotStep == \E data \in SeqUpTo(Levels, MaxBatch), t \in Timestamps : HandleSnapshot(data, t)
DeltaStep == \E d \in DeltaBatches, t \in Timestamps : HandleDelta(d[1], d[2], d[3], t)
BestAskStep == \E k \in Offsets : GetBestAsk(k)
BestBidStep == \E k \in Offsets : GetBestBid(k)

Next ==
  \/ SnapshotStep
  \/ DeltaStep
  \/ Reset
  \/ BestAskStep
  \/ BestBidStep
  \/ Return

Spec == Init /\ [][Next]_vars

\* The same object behind a feed whose snapshots never list a price twice.
DistinctPrices(data) == \A i, j \in 1..Len(data) : i # j => Price(data[i]) # Price(data[j])

FeedSnapshotStep ==
  \E data \in {d \in SeqUpTo(Levels, MaxBatch) : DistinctPrices(d)}, t \in Timestamps :
    HandleSnapshot(data, t)

NextFeed ==
  \/ FeedSnapshotStep
  \/ DeltaStep
  \/ Reset
  \/ BestAskStep
  \/ BestBidStep
  \/ Return

SpecFeed == Init /\ [][NextFeed]_vars

\* The same object with levels whose quantities differ, and with every query.
QueryDeltaBatches ==
  {d \in SeqUpTo(QueryLevels, MaxQueryBatch) \X SeqUpTo(QueryLevels, MaxQueryBatch)
          \X SeqUpTo(QueryLevels, MaxQueryBatch) :
     Len(d[1]) + Len(d[2]) + Len(d[3]) <= MaxQueryBatch}

QuerySnapshotStep ==
  \E data \in SeqUpTo(QueryLevels, MaxQueryBatch), t \in Timestamps : HandleSnapshot(data, t)
QueryDeltaStep ==
  \E d \in QueryDeltaBatches, t \in Timestamps : HandleDelta(d[1], d[2], d[3], t)
SpreadPercentStep == \E n \in Offsets : GetSpreadPercent(n)
SpreadBasisPointsStep == \E n \in Offsets : GetSpreadBasisPoints(n)
SlippageStep == \E size \in OrderSizes, side \in Sides : GetEstimatedSlippage(size, side)

NextQuery ==
  \/ QuerySnapshotStep
  \/ QueryDeltaStep
  \/ Reset
  \/ BestAskStep
  \/ BestBidStep
  \/ SpreadPercentStep
  \/ SpreadBasisPointsStep
  \/ SlippageStep
  \/ Return

\* new OrderBook(symbol, {maxDepth: MaxDepth}): timestamps are not checked
\* unless the options ask for it.
InitQuery ==
  /\ book = <<>>
  /\ lastUpdateTimestamp \in Timestamps
  /\ maxDepth = MaxDepth
  /\ shouldCheckTimestamps = FALSE
  /\ pc = "idle"
  /\ call = NoCall
  /\ prevBook = <<>>
  /\ prevTimestamp = lastUpdateTimestamp
  /\ error = NoError
  /\ result = Null

SpecQuery == InitQuery /\ [][NextQuery]_vars

(***************************************************************************)
(* What the properties below speak of.                                     *)
(***************************************************************************)
\* The recorded call was handleSnapshot or handleDelta.
Mutating == pc = "returned" /\ call.op \in {"handleSnapshot", "handleDelta"}

\* The recorded call was accepted: it returned without throwing.
Accepted(op) == pc = "returned" /\ call.op = op /\ error = NoError

\* The array the recorded call handed to trimToMaxDepth.
PreTrimBook ==
  IF call.op = "handleSnapshot" THEN call.data
  ELSE ApplyBatches(prevBook, call.deleteDelta, call.upsertDelta, call.insertDelta)

\* The recorded call's trimToMaxDepth went past its early return.
TrimTriggered == Mutating /\ error = NoError /\ Len(PreTrimBook) > maxDepth

\* The recorded call was handleDelta with these three batches only.
DeltaWith(deleteDelta, upsertDelta, insertDelta) ==
  /\ Accepted("handleDelta")
  /\ call.deleteDelta = deleteDelta
  /\ call.upsertDelta = upsertDelta
  /\ call.insertDelta = insertDelta

IsSorted(b) == \A i, j \in 1..Len(b) : i < j => Price(b[i]) >= Price(b[j])

\* The positions of b that hold price p, and their number.
At(b, p) == {i \in 1..Len(b) : Price(b[i]) = p}
CountAt(b, p) == Cardinality(At(b, p))

UniquePrices(b) == \A p \in Prices : CountAt(b, p) <= 1

\* How often level l occurs in b.
Occurrences(b, l) == Cardinality({i \in 1..Len(b) : b[i] = l})
SameLevels(a, b) == \A l \in Levels : Occurrences(a, l) = Occurrences(b, l)

\* b without its levels at price p.
RECURSIVE Without(_, _)
Without(b, p) ==
  IF b = <<>> THEN <<>>
  ELSE IF Price(Head(b)) = p THEN Without(Tail(b), p)
  ELSE <<Head(b)>> \o Without(Tail(b), p)

(***************************************************************************)
(* C1: for every maxDepth >= 1, odd values included, the book holds at     *)
(* most maxDepth levels after every handleSnapshot and handleDelta call.   *)
(***************************************************************************)
C1_DepthBound == Len(book) <= maxDepth

(***************************************************************************)
(* C2: after every handleSnapshot, handleDelta and reset call the book is  *)
(* sorted by price, highest first, buys and sells in one sequence, also    *)
(* when the call trimmed the book.                                         *)
(***************************************************************************)
C2_Sorted == IsSorted(book)

\* A call that was given levels out of order, trimmed them, and left levels
\* at different prices.
C2_Witness ==
  /\ TrimTriggered
  /\ ~IsSorted(PreTrimBook)
  /\ Len(book) < Len(PreTrimBook)
  /\ \E i, j \in 1..Len(book) : Price(book[i]) # Price(book[j])

(***************************************************************************)
(* C3: with timestamp checking on, a handleSnapshot or handleDelta call    *)
(* with a timestamp below lastUpdateTimestamp throws and leaves the book   *)
(* and lastUpdateTimestamp as they were; a call with a timestamp at or     *)
(* above it is accepted and sets lastUpdateTimestamp to its timestamp.     *)
(***************************************************************************)
C3_TimestampChecked ==
  (Mutating /\ shouldCheckTimestamps) =>
    IF call.timestamp < prevTimestamp
    THEN error = StaleError /\ book = prevBook /\ lastUpdateTimestamp = prevTimestamp
    ELSE error = NoError /\ lastUpdateTimestamp = call.timestamp

\* A stale handleDelta whose batches would have changed the book, rejected.
C3_Witness ==
  /\ Mutating /\ shouldCheckTimestamps
  /\ call.op = "handleDelta"
  /\ call.timestamp < prevTimestamp
  /\ error = StaleError
  /\ call.deleteDelta # <<>> /\ call.upsertDelta # <<>>
  /\ DeltaBook(prevBook, call.deleteDelta, call.upsertDelta, call.insertDelta, maxDepth)
       # prevBook

(***************************************************************************)
(* C4: no two levels of the book have the same price after an accepted     *)
(* handleSnapshot or handleDelta call, snapshots being given levels of     *)
(* pairwise distinct prices.  Stated of one call: if the prices were       *)
(* distinct before it, they are distinct after it.                         *)
(***************************************************************************)
C4_UniquePrices ==
  (/\ Mutating /\ error = NoError
   /\ UniquePrices(prevBook)
   /\ (call.op = "handleSnapshot" => UniquePrices(call.data)))
  => UniquePrices(book)

C6_DeleteIdempotent ==
  \A l, m \in Levels :
    /\ (DeltaWith(<<l>>, <<>>, <<>>) /\ CountAt(prevBook, Price(l)) = 0)
         => book = prevBook
    /\ (DeltaWith(<<l, m>>, <<>>, <<>>) /\ Price(l) = Price(m))
         => book = DeltaBook(prevBook, <<l>>, <<>>, <<>>, maxDepth)

(***************************************************************************)
(* C7: when no trimming is triggered, a handleDelta with one upsert at     *)
(* price p leaves the book as long as it was, with the level at p equal to *)
(* the upserted record, if p was in the book, and one level longer, with   *)
(* the upserted record in it, if p was not; the levels at other prices     *)
(* are as they were.                                                       *)
(***************************************************************************)
C7_UpsertReplacesOrInserts ==
  \A l \in Levels :
    (DeltaWith(<<>>, <<l>>, <<>>) /\ ~TrimTriggered)
    => /\ Without(book, Price(l)) = Without(prevBook, Price(l))
       /\ IF CountAt(prevBook, Price(l)) > 0
          THEN /\ Len(book) = Len(prevBook)
               /\ \A i \in At(book, Price(l)) : book[i] = l
          ELSE /\ Len(book) = Len(prevBook) + 1
               /\ \E i \in At(book, Price(l)) : book[i] = l

(***************************************************************************)
(* C8: one handleDelta call applies its deletes, then its upserts, then    *)
(* its inserts, each batch in the order given: when a price p of the book  *)
(* is in the delete batch and in the upsert batch, the book afterwards     *)
(* holds exactly one level at p, the upsert record; and when a batch lists *)
(* p several times the last record listed for p is the one stored.         *)
(* Stated of the calls that trigger no trimming, which could remove the    *)
(* level at p again.                                                       *)
(***************************************************************************)
C8_BatchOrder ==
  \A l, m \in Levels :
    (Price(l) = Price(m) /\ ~TrimTriggered) =>
      /\ (DeltaWith(<<l>>, <<m>>, <<>>) /\ CountAt(prevBook, Price(l)) > 0)
           => CountAt(book, Price(m)) = 1 /\ \A i \in At(book, Price(m)) : book[i] = m
      /\ (DeltaWith(<<>>, <<l, m>>, <<>>) \/ DeltaWith(<<>>, <<>>, <<l, m>>))
           => CountAt(book, Price(m)) >= 1 /\ \A i \in At(book, Price(m)) : book[i] = m

(***************************************************************************)
(* C9: after an accepted handleSnapshot of at most maxDepth levels the     *)
(* book holds exactly the levels given, each as often as given, sorted by  *)
(* price, highest first: no level of the book before the call survives.    *)
(***************************************************************************)
C9_SnapshotReplaces ==
  (Accepted("handleSnapshot") /\ Len(call.data) <= maxDepth)
  => SameLevels(book, call.data) /\ IsSorted(book)

\* Such a snapshot, of levels out of order, onto a book holding a level that
\* the snapshot does not.
C9_Witness ==
  /\ Accepted("handleSnapshot")
  /\ Len(call.data) <= maxDepth
  /\ Len(call.data) = 2
  /\ ~IsSorted(call.data)
  /\ \E i \in 1..Len(prevBook) : Occurrences(call.data, prevBook[i]) = 0

(***************************************************************************)
(* C10: in every reachable book state and for every offset k >= 0,         *)
(* getBestAsk(k) returns the (k+1)-th lowest Sell price of the book when   *)
(* the book holds at least k+1 Sell levels, and null when it holds fewer.  *)
(***************************************************************************)
\* The positions of the Sell levels of b.
SellsOf(b) == {i \in 1..Len(b) : Side(b[i]) = "Sell"}

\* The (k+1)-th lowest Sell price of b, which holds more than k Sell levels.
KthLowestSell(b, k) ==
  CHOOSE x \in {Price(b[i]) : i \in SellsOf(b)} :
    /\ Cardinality({i \in SellsOf(b) : Price(b[i]) < x}) <= k
    /\ Cardinality({i \in SellsOf(b) : Price(b[i]) <= x}) > k

C10_BestAsk ==
  (pc = "returned" /\ call.op = "getBestAsk" /\ call.offset >= 0)
  => result = IF Cardinality(SellsOf(book)) > call.offset
              THEN <<KthLowestSell(book, call.offset)>>
              ELSE Null

(***************************************************************************)
(* C11: in every reachable book state and for every offset k >= 0,         *)
(* getBestBid(k) returns the (k+1)-th highest Buy price of the book when   *)
(* the book holds at least k+1 Buy levels, and null otherwise.             *)
(***************************************************************************)
\* The positions of the Buy levels of b.
BuysOf(b) == {i \in 1..Len(b) : Side(b[i]) = "Buy"}

\* The (k+1)-th highest Buy price of b, which holds more than k Buy levels.
KthHighestBuy(b, k) ==
  CHOOSE x \in {Price(b[i]) : i \in BuysOf(b)} :
    /\ Cardinality({i \in BuysOf(b) : Price(b[i]) > x}) <= k
    /\ Cardinality({i \in BuysOf(b) : Price(b[i]) >= x}) > k

C11_BestBid ==
  (pc = "returned" /\ call.op = "getBestBid" /\ call.offset >= 0)
  => result = IF Cardinality(BuysOf(book)) > call.offset
              THEN <<KthHighestBuy(book, call.offset)>>
              ELSE Null

\* getBestBid(1) on a book of a Sell level and Buy levels at two prices.
C11_Witness ==
  /\ pc = "returned" /\ call.op = "getBestBid" /\ call.offset = 1
  /\ Cardinality({Price(book[i]) : i \in BuysOf(book)}) = 2
  /\ SellsOf(book) # {}
  /\ result # Null
  /\ result # BestBid(book, 0)

(***************************************************************************)
(* C15: with timestamp checking off, no handleSnapshot or handleDelta call *)
(* is rejected as stale: a call with a timestamp below lastUpdateTimestamp *)
(* is applied in full and sets lastUpdateTimestamp to that timestamp.      *)
(***************************************************************************)
C15_TimestampUnchecked ==
  (Mutating /\ ~shouldCheckTimestamps)
  => /\ error = NoError
     /\ lastUpdateTimestamp = call.timestamp
     /\ book = Sort(TrimToMaxDepth(PreTrimBook, maxDepth))

\* An older handleDelta that changed the book and took the clock back.
C15_Witness ==
  /\ Mutating /\ ~shouldCheckTimestamps
  /\ call.op = "handleDelta"
  /\ call.timestamp < prevTimestamp
  /\ lastUpdateTimestamp < prevTimestamp
  /\ book # prevBook

(***************************************************************************)
(* C16: when a call leaves more than maxDepth levels to trim, the book is  *)
(* uncrossed (every Sell price above every Buy price), the Buy levels are  *)
(* more than maxPerSide = round(maxDepth / 2) and the Sell levels are not, *)
(* then trimming removes exactly buys - maxPerSide levels, all of them Buy *)
(* levels, and no Sell level; and the same with the sides exchanged.       *)
(***************************************************************************)
Uncrossed(b) ==
  \A i, j \in 1..Len(b) :
    (Side(b[i]) = "Sell" /\ Side(b[j]) # "Sell") => Price(b[i]) > Price(b[j])

NumSells(b) == Cardinality(SellsOf(b))
NumBuys(b) == Len(b) - NumSells(b)

\* Every level of a is in b at least as often.
WithinLevels(a, b) == \A l \in Levels : Occurrences(a, l) <= Occurrences(b, l)

\* The levels of b that are Sell levels, and those that are not.
RECURSIVE SellLevels(_)
SellLevels(b) ==
  IF b = <<>> THEN <<>>
  ELSE IF Side(Head(b)) = "Sell" THEN <<Head(b)>> \o SellLevels(Tail(b))
  ELSE SellLevels(Tail(b))

RECURSIVE BuyLevels(_)
BuyLevels(b) ==
  IF b = <<>> THEN <<>>
  ELSE IF Side(Head(b)) # "Sell" THEN <<Head(b)>> \o BuyLevels(Tail(b))
  ELSE BuyLevels(Tail(b))

C16_EvenTrim ==
  (TrimTriggered /\ Uncrossed(PreTrimBook)) =>
    LET buys == NumBuys(PreTrimBook)
        sells == NumSells(PreTrimBook)
        half == (maxDepth + 1) \div 2
    IN /\ (buys > half /\ sells <= half)
            => /\ Len(book) = Len(PreTrimBook) - (buys - half)
               /\ WithinLevels(book, PreTrimBook)
               /\ SameLevels(SellLevels(book), SellLevels(PreTrimBook))
       /\ (sells > half /\ buys <= half)
            => /\ Len(book) = Len(PreTrimBook) - (sells - half)
               /\ WithinLevels(book, PreTrimBook)
               /\ SameLevels(BuyLevels(book), BuyLevels(PreTrimBook))

\* A trim of two Buy levels from an uncrossed book that holds a Sell level.
C16_Witness ==
  /\ TrimTriggered /\ Uncrossed(PreTrimBook)
  /\ NumSells(PreTrimBook) >= 1
  /\ NumSells(PreTrimBook) <= (maxDepth + 1) \div 2
  /\ NumBuys(PreTrimBook) - (maxDepth + 1) \div 2 >= 2
  /\ Len(book) = Len(PreTrimBook) - 2

(***************************************************************************)
(* C17: when trimming removes buysToTrim > 0 entries for the Buy side, the *)
(* entries removed are the buysToTrim entries at the back of the sequence  *)
(* sorted by price, highest first (the lowest prices), so that the lowest  *)
(* level of the book before the trim does not survive it.                  *)
(***************************************************************************)
C17_TrimFromBack ==
  LET sorted == Sort(PreTrimBook)
      half == (maxDepth + 1) \div 2
      buysToTrim == NumBuys(PreTrimBook) - half
      sellsToTrim == NumSells(PreTrimBook) - half
      front == IF sellsToTrim > 0 THEN sellsToTrim ELSE 0
  IN (TrimTriggered /\ buysToTrim > 0)
     => book = SubSeq(sorted, front + 1, Len(sorted) - buysToTrim)

(***************************************************************************)
(* C18: offsets are taken by absolute value: in every reachable book state *)
(* and for every integer k, getBestAsk(-k) returns what getBestAsk(k)      *)
(* returns, and getBestBid(-k) what getBestBid(k) returns.                 *)
(***************************************************************************)
C18_OffsetSign ==
  /\ (pc = "returned" /\ call.op = "getBestAsk") => result = BestAsk(book, 0 - call.offset)
  /\ (pc = "returned" /\ call.op = "getBestBid") => result = BestBid(book, 0 - call.offset)

(***************************************************************************)
(* C19: for every maxDepth >= 1 and every uncrossed book, a handleSnapshot *)
(* or handleDelta that triggers trimming does not remove the best prices:  *)
(* afterwards getBestBid() is the highest Buy price and getBestAsk() the   *)
(* lowest Sell price of the levels present just before trimming, and a     *)
(* side that was not empty before trimming is not empty after it.          *)
(***************************************************************************)
C19_BestPricesSurvive ==
  (TrimTriggered /\ Uncrossed(PreTrimBook)) =>
    /\ BuysOf(PreTrimBook) # {}
         => /\ BuysOf(book) # {}
            /\ BestBid(book, 0) = <<KthHighestBuy(PreTrimBook, 0)>>
    /\ SellsOf(PreTrimBook) # {}
         => /\ SellsOf(book) # {}
            /\ BestAsk(book, 0) = <<KthLowestSell(PreTrimBook, 0)>>

(***************************************************************************)
(* The estimate of slippage.                                               *)
(***************************************************************************)
SlippageReturned == pc = "returned" /\ call.op = "getEstimatedSlippage"
SlippageSucceeded == SlippageReturned /\ error = NoError /\ result # Null

\* The side an order of the given side trades against.
Opposite(side) == IF side = "Buy" THEN "Sell" ELSE "Buy"

RECURSIVE SumQty(_)
SumQty(levels) == IF levels = <<>> THEN 0 ELSE Qty(Head(levels)) + SumQty(Tail(levels))

\* The quantity resting on a side at one price, and at the prices an order
\* trading against that side prefers to it.
QtyAt(b, s, p) == SumQty(SelectSeq(b, LAMBDA l : Side(l) = s /\ Price(l) = p))
QtyBetter(b, s, p) ==
  SumQty(SelectSeq(b, LAMBDA l : Side(l) = s /\ IF s = "Sell" THEN Price(l) < p
                                                              ELSE Price(l) > p))

RECURSIVE SumCost(_, _, _, _)
SumCost(b, s, size, prices) ==
  IF prices = {} THEN 0
  ELSE LET p == CHOOSE x \in prices : TRUE
       IN p * Min(QtyAt(b, s, p), Max(0, size - QtyBetter(b, s, p)))
          + SumCost(b, s, size, prices \ {p})

\* What an order of the given size pays, or receives, taking the best prices
\* of the side first.
GreedyCost(b, s, size) ==
  SumCost(b, s, size, {Price(b[i]) : i \in {j \in 1..Len(b) : Side(b[j]) = s}})

C13_GreedyCost ==
  SlippageSucceeded =>
    /\ result[1].executionPrice[1]
         = GreedyCost(prevBook, Opposite(call.side), call.baseOrderSize)
    /\ result[1].executionPrice[2] = call.baseOrderSize

C13_Witness ==
  /\ SlippageSucceeded
  /\ call.side = "Buy"
  /\ call.baseOrderSize = 3
  /\ QtyAt(prevBook, "Sell", 1) = 2
  /\ QtyAt(prevBook, "Sell", 2) = 2
  /\ result[1].executionPrice = <<4, 3>>

Queries ==
  {"getBestAsk", "getBestBid", "getSpreadPercent", "getSpreadBasisPoints",
   "getEstimatedSlippage"}

\* C14: a call of getBestAsk, getBestBid, getSpreadPercent, getSpreadBasisPoints
\* or getEstimatedSlippage, one that throws included, leaves the levels of the
\* book, their order and lastUpdateTimestamp as they were.
C14_QueriesPure ==
  (pc = "returned" /\ call.op \in Queries) =>
    /\ book = prevBook
    /\ lastUpdateTimestamp = prevTimestamp

\* A getEstimatedSlippage that throws for want of quantity, on a book of both
\* sides that the walk's own order would have rearranged.
C14_Witness ==
  /\ SlippageReturned
  /\ error = NotFilledError
  /\ book = prevBook
  /\ Len(book) >= 3
  /\ BookSortedBySlippage(book, call.side) # book
  /\ lastUpdateTimestamp = prevTimestamp
  /\ lastUpdateTimestamp > 0

\* Some level of the side at its best price holds the whole order.
FitsBestLevel(b, s, size, bestPrice) ==
  \E i \in 1..Len(b) : Side(b[i]) = s /\ Price(b[i]) = bestPrice /\ Qty(b[i]) >= size

\* C20: with positive prices and quantities that are not negative, an estimate
\* that succeeds reports no negative slippage: a Buy pays at least getBestAsk()
\* times the order size, a Sell receives at most getBestBid() times the order
\* size, and exactly that when the order fits in a level at the best price.
C20_SlippageNotNegative ==
  SlippageSucceeded =>
    LET totalCost == result[1].executionPrice[1]
        size == call.baseOrderSize
        best == IF call.side = "Buy" THEN BestAsk(prevBook, 0) ELSE BestBid(prevBook, 0)
    IN /\ best # Null
       /\ call.side = "Buy" => totalCost >= best[1] * size
       /\ call.side = "Sell" => totalCost <= best[1] * size
       /\ result[1].slippagePercent[1] >= 0
       /\ result[1].slippagePercent[2] > 0
       /\ result[1].slippageBasisPoints[1] >= 0
       /\ FitsBestLevel(prevBook, Opposite(call.side), size, best[1]) =>
            /\ totalCost = best[1] * size
            /\ result[1].slippagePercent[1] = 0

\* A Sell that goes through two bids and receives less than the best bid
\* would give for all of it.
C20_Witness ==
  /\ SlippageSucceeded
  /\ call.side = "Sell"
  /\ Len(FilterSide(prevBook, "Buy")) >= 2
  /\ result[1].executionPrice[1] < BestBid(prevBook, 0)[1] * call.baseOrderSize
  /\ result[1].slippagePercent[1] > 0

=============================================================================
